---- MODULE Spec2Model ----
(***************************************************************************)
(* Model of the UrbanSound8K feature-extraction notebook                   *)
(* (3-us8k-cnn-extract-train.ipynb): the windower, the per-clip extractor, *)
(* the label encoder, fold persistence and loading, and the fold rotation  *)
(* of the training loop.                                                   *)
(*                                                                         *)
(* Numeric kernels (librosa.load, melspectrogram, logamplitude, delta) are *)
(* external: a sample sequence is modelled by its length, and the log-mel  *)
(* energy of band b at time frame tf of the window that starts at sample s *)
(* is the symbolic value <<s, b, tf>>.  Arrays are functions on 0..n-1 as  *)
(* in numpy; Python lists are sequences.                                   *)
(***************************************************************************)
EXTENDS Integers, Sequences, FiniteSets, TLC

VARIABLES
    \* extract_feature_array: one clip
    bands, frames, clip_len, start, window, log_specgrams, features, pc,
    \* one_hot_encode: one call
    enc_labels, enc_result, enc_pc,
    \* the training loop
    max_trials, f, v, t, num_folds, load_calls, train_pc,
    \* save_folds and load_folds: the audio corpus, the .npy files, the cell
    corpus, disk, run, k, extracted, encoded, save_pc, raised,
    load_req, load_result, load_pc,
    \* the all_folds branch of the training cell: the flag, the notebook's
    \* global names, the outcome of the branch
    all_folds, globals, cell_result, cell_pc

clipVars == <<bands, frames, clip_len, start, window, log_specgrams, features, pc>>
encVars == <<enc_labels, enc_result, enc_pc>>
trainVars == <<max_trials, f, v, t, num_folds, load_calls, train_pc>>
foldVars == <<corpus, disk, run, k, extracted, encoded, save_pc, raised,
              load_req, load_result, load_pc>>
allVars == <<all_folds, globals, cell_result, cell_pc>>
vars == <<clipVars, encVars, trainVars, foldVars, allVars>>

\* ------------------------------------------------------------------ bounds

\* Longest sample sequence of a clip.
MaxLen == 1600
\* Largest configured number of time frames and of mel bands.
MaxFrames == 3
MaxBands == 2
\* Longest label sequence handed to one_hot_encode, and largest class id.
MaxLabels == 4
MaxLabel == 2
\* Folds of the corpus that hold audio files (the directories of the other
\* folds are empty), files per fold, and folds per load_folds call.
CorpusFolds == 2
MaxFiles == 2
MaxLoad == 2
\* Runs of save_folds over the same data directory.
MaxRuns == 2
\* Clips per fold of a corpus of well-formed clips.
MaxClips == 3

\* ------------------------------------------------------- program constants

\* window_size = 512 * (frames - 1): 512 is the hop of the spectrogram kernel.
HopLength == 512
\* extract_features(..., bands = 60, frames = 41): save_folds uses the default.
DefaultFrames == 41
\* save_folds: for k in range(1,11)
NumFolds == 10
\* "if v > 10: v = 1": the largest fold id.
MaxFoldId == 10
\* load_all_folds: for k in range(1,9), then 'fold9' and 'fold10'.
LastTrainFold == 8
ValidationFold == 9
TestingFold == 10
\* "as we use two folds for training, there are 9 possible trails rather than 10"
PossibleTrials == 9

Max(a, b) == IF a >= b THEN a ELSE b
Min(a, b) == IF a <= b THEN a ELSE b

\* ---------------------------------------------------------------- windower

WindowSize(fr) == HopLength * (fr - 1)

\* start += (window_size / 2): Python 2 integer division.
WindowStepWhole(window_size) == window_size
WindowStep(window_size) == window_size \div 2

\* len(sound_clip[s:e]) for 0 <= s <= e: numpy clips both ends to the length.
SliceLen(len, s, e) == Max(0, Min(e, len) - Min(s, len))

\* Idle values of the variables a specification does not use.
ClipIdle ==
    /\ bands = 0 /\ frames = 0 /\ clip_len = 0 /\ start = 0
    /\ window = <<>> /\ log_specgrams = <<>> /\ features = <<>> /\ pc = "idle"
EncIdle ==
    /\ enc_labels = <<>> /\ enc_result = <<>> /\ enc_pc = "idle"
FoldIdle ==
    /\ corpus = <<>> /\ disk = <<>> /\ run = 0 /\ k = 0 /\ extracted = <<>>
    /\ encoded = <<>> /\ save_pc = "idle" /\ raised = ""
    /\ load_req = <<>> /\ load_result = <<>> /\ load_pc = "idle"
TrainIdle ==
    /\ max_trials = 0 /\ f = 0 /\ v = 0 /\ t = 0 /\ num_folds = 0
    /\ load_calls = <<>> /\ train_pc = "idle"
\* all_folds = False, as the training cell sets it.
AllIdle ==
    /\ all_folds = FALSE /\ globals = <<>> /\ cell_result = <<>> /\ cell_pc = "idle"

\* ------------------------------------------------- frame feature encoder

\* librosa.feature.melspectrogram(signal, n_mels) followed by logamplitude:
\* a [n_mels, 1 + len(signal) / hop] array; entry [b][tf] is the log-mel
\* energy of band b at time frame tf of the window starting at s.
LogSpec(s, window_size, n_mels) ==
    [b \in 0..(n_mels - 1) |->
        [tf \in 0..(window_size \div HopLength) |-> <<s, b, tf>>]]

NumRows(m) == Cardinality(DOMAIN m)
NumCols(m) == IF DOMAIN m = {} THEN 0 ELSE Cardinality(DOMAIN m[0])

\* m.T
Transpose(m) ==
    [c \in 0..(NumCols(m) - 1) |-> [r \in 0..(NumRows(m) - 1) |-> m[r][c]]]

\* m.flatten(): row-major (C order).
Flatten(m) ==
    [i \in 0..(NumRows(m) * NumCols(m) - 1) |->
        m[i \div NumCols(m)][i % NumCols(m)]]

\* logspec.T.flatten()[:, np.newaxis].T : a [1, bands*frames] row.
FlatRowSame(logspec) == <<Flatten(logspec)>>
FlatRow(logspec) == <<Flatten(Transpose(logspec))>>

\* librosa.feature.delta along the last (time) axis: entry [b][tf] is an
\* opaque function of row b of its argument and of tf.
Delta(m) ==
    [b \in DOMAIN m |-> [tf \in DOMAIN m[b] |-> <<"delta", m[b], tf>>]]

\* np.asarray(log_specgrams).reshape(n, bands, frames, 1), then the zero
\* channel is concatenated on axis 3 and filled with the delta of channel 0.
\* Each feature is [b][tf] |-> <<channel 0, channel 1>>.
Reshape(specs, nb, nf) ==
    [i \in 1..Len(specs) |->
        [b \in 0..(nb - 1) |-> [tf \in 0..(nf - 1) |-> specs[i][1][b * nf + tf]]]]

BuildFeatures(specs, nb, nf) ==
    LET ch0 == Reshape(specs, nb, nf)
    IN  [i \in 1..Len(specs) |->
            [b \in 0..(nb - 1) |->
                [tf \in 0..(nf - 1) |-> <<ch0[i][b][tf], Delta(ch0[i])[b][tf]>>]]]

\* -------------------------------------------------- extract_feature_array

InitClip ==
    /\ bands \in 1..MaxBands
    /\ frames \in 2..MaxFrames
    /\ clip_len \in 0..MaxLen
    /\ start = 0
    /\ window = <<>>
    /\ log_specgrams = <<>>
    /\ features = <<>>
    /\ pc = "windows"
    /\ EncIdle
    /\ TrainIdle
    /\ FoldIdle
    /\ AllIdle

\* windows(): while start < len(data): yield start, start + window_size
WindowsYield ==
    /\ pc = "windows"
    /\ start < clip_len
    /\ window' = <<start, start + WindowSize(frames)>>
    /\ pc' = "body"
    /\ UNCHANGED <<bands, frames, clip_len, start, log_specgrams, features>>
    /\ UNCHANGED <<encVars, trainVars, foldVars, allVars>>

\* windows(): the while loop ends, and with it the for loop over it.
WindowsStop ==
    /\ pc = "windows"
    /\ ~(start < clip_len)
    /\ pc' = "reshape"
    /\ UNCHANGED <<bands, frames, clip_len, start, window, log_specgrams, features>>
    /\ UNCHANGED <<encVars, trainVars, foldVars, allVars>>

\* The loop body on a full-length window: one flattened spectrogram is appended.
AppendWindow ==
    /\ pc = "body"
    /\ SliceLen(clip_len, window[1], window[2]) = WindowSize(frames)
    /\ log_specgrams' =
           Append(log_specgrams, FlatRow(LogSpec(window[1], WindowSize(frames), bands)))
    /\ pc' = "resume"
    /\ UNCHANGED <<bands, frames, clip_len, start, window, features>>
    /\ UNCHANGED <<encVars, trainVars, foldVars, allVars>>

\* The loop body on a window trailing off the end: nothing is appended.
DiscardWindow ==
    /\ pc = "body"
    /\ SliceLen(clip_len, window[1], window[2]) # WindowSize(frames)
    /\ pc' = "resume"
    /\ UNCHANGED <<bands, frames, clip_len, start, window, log_specgrams, features>>
    /\ UNCHANGED <<encVars, trainVars, foldVars, allVars>>

\* windows() resumed after its yield: start += (window_size / 2)
WindowsAdvance ==
    /\ pc = "resume"
    /\ start' = start + WindowStep(WindowSize(frames))
    /\ pc' = "windows"
    /\ UNCHANGED <<bands, frames, clip_len, window, log_specgrams, features>>
    /\ UNCHANGED <<encVars, trainVars, foldVars, allVars>>

\* After the loop: reshape, add the delta channel, return.
ReturnFeatures ==
    /\ pc = "reshape"
    /\ features' = BuildFeatures(log_specgrams, bands, frames)
    /\ pc' = "done"
    /\ UNCHANGED <<bands, frames, clip_len, start, window, log_specgrams>>
    /\ UNCHANGED <<encVars, trainVars, foldVars, allVars>>

NextClip ==
    \/ WindowsYield
    \/ WindowsStop
    \/ AppendWindow
    \/ DiscardWindow
    \/ WindowsAdvance
    \/ ReturnFeatures

SpecClip == InitClip /\ [][NextClip]_vars

\* Sample index at which the window behind the i-th extracted feature starts.
StartOf(i) == log_specgrams[i][1][0][1]

\* floor((L - W) / (W/2)) + 1
WindowCountFormula(L, W) == ((L - W) \div (W \div 2)) + 1

\* C1 (as stated): when the clip's loop has ended, the number of full-length
\* windows it accepted is floor((L - W) / (W/2)) + 1 and each starts at a
\* multiple of W/2.
C1_AsStated ==
    pc \in {"reshape", "done"} =>
        /\ Len(log_specgrams) = WindowCountFormula(clip_len, WindowSize(frames))
        /\ \A i \in 1..Len(log_specgrams) :
               StartOf(i) % (WindowSize(frames) \div 2) = 0

\* C1 (amended): when the clip's loop has ended, the number of full-length
\* windows it accepted is floor((L - W) / (W/2)) + 1 when that is positive
\* and 0 otherwise (a clip shorter than one window), and every accepted
\* window starts at a multiple of W/2.
C1_WindowCount ==
    pc \in {"reshape", "done"} =>
        /\ Len(log_specgrams) =
               Max(0, WindowCountFormula(clip_len, WindowSize(frames)))
        /\ \A i \in 1..Len(log_specgrams) :
               StartOf(i) % (WindowSize(frames) \div 2) = 0

\* A clip whose loop has ended with three accepted, overlapping windows.
C1_Witness ==
    /\ pc = "done"
    /\ Len(log_specgrams) = 3
    /\ clip_len > WindowSize(frames) * 2

\* C2: in every returned Frame Tensor, channel 0 at [b, tf] is the log-mel
\* energy of band b at time frame tf of the window the tensor was built from.
C2_AsStated ==
    pc = "done" =>
        \A i \in 1..Len(features) :
            /\ DOMAIN features[i] = 0..(bands - 1)
            /\ \A b \in 0..(bands - 1) :
                   /\ DOMAIN features[i][b] = 0..(frames - 1)
                   /\ \A tf \in 0..(frames - 1) :
                          features[i][b][tf][1] = <<StartOf(i), b, tf>>

\* ------------------------------------------------------------ label encoder

RECURSIVE SeqsUpTo(_, _)
\* All sequences over S of length at most n.
SeqsUpTo(S, n) ==
    IF n = 0 THEN {<<>>}
    ELSE LET shorter == SeqsUpTo(S, n - 1)
         IN  shorter \cup {Append(q, x) : q \in {r \in shorter : Len(r) = n - 1}, x \in S}

Values(labels) == {labels[i] : i \in 1..Len(labels)}

\* one_hot_encode[np.arange(n_labels), labels] = 1 : numpy accepts the column
\* index j of a row of width w when -w <= j < w (a negative j counts from the
\* end) and raises IndexError otherwise.
ColumnOfRank(labels, j, w) == Cardinality({u \in Values(labels) : u < j})
ColumnOf(labels, j, w) == IF j < 0 THEN j + w ELSE j

\* one_hot_encode(labels): n_unique_labels = len(np.unique(labels)), a zero
\* [n_labels, n_unique_labels] matrix, then one assignment per row.
one_hot_encode(labels) ==
    LET n_unique_labels == Cardinality(Values(labels))
    IN  IF \E i \in 1..Len(labels) :
               labels[i] >= n_unique_labels \/ labels[i] < -n_unique_labels
        THEN [raised |-> "IndexError"]
        ELSE [raised |-> "",
              width |-> n_unique_labels,
              rows |-> [i \in 1..Len(labels) |->
                           [c \in 0..(n_unique_labels - 1) |->
                               IF c = ColumnOf(labels, labels[i], n_unique_labels)
                               THEN 1 ELSE 0]]]

InitEncode ==
    /\ enc_labels \in SeqsUpTo(0..MaxLabel, MaxLabels)
    /\ enc_result = <<>>
    /\ enc_pc = "call"
    /\ ClipIdle
    /\ TrainIdle
    /\ FoldIdle
    /\ AllIdle

\* one_hot_encode returns its matrix.
EncodeReturn ==
    /\ enc_pc = "call"
    /\ one_hot_encode(enc_labels).raised = ""
    /\ enc_result' = one_hot_encode(enc_labels)
    /\ enc_pc' = "returned"
    /\ UNCHANGED enc_labels
    /\ UNCHANGED <<clipVars, trainVars, foldVars, allVars>>

\* one_hot_encode ends in the exception of its index assignment.
EncodeRaise ==
    /\ enc_pc = "call"
    /\ one_hot_encode(enc_labels).raised # ""
    /\ enc_result' = one_hot_encode(enc_labels)
    /\ enc_pc' = "raised"
    /\ UNCHANGED enc_labels
    /\ UNCHANGED <<clipVars, trainVars, foldVars, allVars>>

NextEncode ==
    \/ EncodeReturn
    \/ EncodeRaise

SpecEncode == InitEncode /\ [][NextEncode]_vars

\* A row with exactly one entry 1 and every other entry 0.
IsOneHotRow(row) ==
    /\ \A c \in DOMAIN row : row[c] \in {0, 1}
    /\ Cardinality({c \in DOMAIN row : row[c] = 1}) = 1

\* C3: for every label sequence one_hot_encode returns a matrix whose rows
\* each hold exactly one 1 and otherwise 0, with as many columns as the input
\* has distinct labels.
C3_AsStated ==
    enc_pc # "call" =>
        /\ enc_pc = "returned"
        /\ enc_result.width = Cardinality(Values(enc_labels))
        /\ \A i \in 1..Len(enc_labels) :
               /\ DOMAIN enc_result.rows[i] = 0..(enc_result.width - 1)
               /\ IsOneHotRow(enc_result.rows[i])

\* C4: for every label sequence one_hot_encode returns a matrix in which row
\* i has its 1 in the column whose index is the rank of labels[i] among the
\* distinct labels of the input.
C4_AsStated ==
    enc_pc # "call" =>
        /\ enc_pc = "returned"
        /\ \A i \in 1..Len(enc_labels) :
               enc_result.rows[i][Cardinality({u \in Values(enc_labels) :
                                                   u < enc_labels[i]})] = 1

\* ------------------------------------------------------------ training loop

\* v = f + 2; if v > 10: v = 1
ValidFoldNoWrap(trial) == trial + 2
ValidFold(trial) == IF trial + 2 > MaxFoldId THEN 1 ELSE trial + 2

\* t = v + 1; if t > 10: t = 1
TestFoldClamp(valid) == IF valid + 1 > MaxFoldId THEN MaxFoldId ELSE valid + 1
TestFold(valid) == IF valid + 1 > MaxFoldId THEN 1 ELSE valid + 1

InitTrain ==
    /\ max_trials \in 1..PossibleTrials
    /\ f = 1
    /\ v = 0
    /\ t = 0
    /\ num_folds = 0
    /\ load_calls = <<>>
    /\ train_pc = "for"
    /\ ClipIdle
    /\ EncIdle
    /\ FoldIdle
    /\ AllIdle

\* for f in range(1, max_trials+1): the head of one trial, up to the print.
TrialBegin ==
    /\ train_pc = "for"
    /\ f <= max_trials
    /\ num_folds' = num_folds + 1
    /\ v' = ValidFold(f)
    /\ t' = TestFold(ValidFold(f))
    /\ train_pc' = "load_train"
    /\ UNCHANGED <<max_trials, f, load_calls>>
    /\ UNCHANGED <<clipVars, encVars, foldVars, allVars>>

\* train_x, train_y = load_folds([f,f+1])
LoadTrain ==
    /\ train_pc = "load_train"
    /\ load_calls' = Append(load_calls, <<f, f + 1>>)
    /\ train_pc' = "load_valid"
    /\ UNCHANGED <<max_trials, f, v, t, num_folds>>
    /\ UNCHANGED <<clipVars, encVars, foldVars, allVars>>

\* valid_x, valid_y = load_folds([v])
LoadValid ==
    /\ train_pc = "load_valid"
    /\ load_calls' = Append(load_calls, <<v>>)
    /\ train_pc' = "load_test"
    /\ UNCHANGED <<max_trials, f, v, t, num_folds>>
    /\ UNCHANGED <<clipVars, encVars, foldVars, allVars>>

\* test_x, test_y = load_folds([t])
LoadTest ==
    /\ train_pc = "load_test"
    /\ load_calls' = Append(load_calls, <<t>>)
    /\ train_pc' = "fit"
    /\ UNCHANGED <<max_trials, f, v, t, num_folds>>
    /\ UNCHANGED <<clipVars, encVars, foldVars, allVars>>

\* build_model, model.fit, evaluate; then the next trial.
FitEvaluate ==
    /\ train_pc = "fit"
    /\ f' = f + 1
    /\ train_pc' = "for"
    /\ UNCHANGED <<max_trials, v, t, num_folds, load_calls>>
    /\ UNCHANGED <<clipVars, encVars, foldVars, allVars>>

\* The range is exhausted: the averages are printed.
TrialsEnd ==
    /\ train_pc = "for"
    /\ f > max_trials
    /\ train_pc' = "done"
    /\ UNCHANGED <<max_trials, f, v, t, num_folds, load_calls>>
    /\ UNCHANGED <<clipVars, encVars, foldVars, allVars>>

NextTrain ==
    \/ TrialBegin
    \/ LoadTrain
    \/ LoadValid
    \/ LoadTest
    \/ FitEvaluate
    \/ TrialsEnd

SpecTrain == InitTrain /\ [][NextTrain]_vars

InTrial == train_pc \in {"load_train", "load_valid", "load_test", "fit"}

\* C7: in every trial the loop takes, the validation fold is f+2 wrapped to 1
\* above 10, the test fold is the one after it with the same wrap, and no
\* fold id handed to load_folds exceeds 10; trial 9 validates on fold 1 and
\* tests on fold 2.
C7_FoldIdsInRange ==
    /\ InTrial =>
           /\ v = (IF f + 2 > MaxFoldId THEN 1 ELSE f + 2)
           /\ t = (IF v + 1 > MaxFoldId THEN 1 ELSE v + 1)
           /\ (f = 9 => v = 1 /\ t = 2)
    /\ \A i \in 1..Len(load_calls) :
           \A j \in 1..Len(load_calls[i]) :
               load_calls[i][j] \in 1..MaxFoldId

\* Trial 9 has loaded its three sets: folds 9 and 10, fold 1, fold 2.
C7_Witness ==
    /\ train_pc = "fit"
    /\ f = 9
    /\ SubSeq(load_calls, Len(load_calls) - 2, Len(load_calls)) =
           <<(<<9, 10>>), (<<1>>), (<<2>>)>>

\* C8: in every trial the two training folds, the validation fold and the
\* test fold are four different folds, and so are the folds of the trial's
\* three load_folds calls.
C8_RolesDistinct ==
    /\ InTrial => Cardinality({f, f + 1, v, t}) = 4
    /\ train_pc = "fit" =>
           LET n == Len(load_calls)
           IN  /\ load_calls[n - 2] = <<f, f + 1>>
               /\ Len(load_calls[n - 1]) = 1
               /\ Len(load_calls[n]) = 1
               /\ load_calls[n - 1][1] \notin {f, f + 1}
               /\ load_calls[n][1] \notin {f, f + 1, load_calls[n - 1][1]}

\* Trial 8, where the test fold wraps: train on 8 and 9, validate on 10,
\* test on 1, all loaded.
C8_Witness ==
    /\ train_pc = "fit"
    /\ f = 8
    /\ v = 10
    /\ t = 1

\* ------------------------------------------------------- extract_features

\* An audio file of a fold directory: whether librosa.load can decode it, its
\* number of samples, and the text that fn.split('fold')[1].split('-')[1]
\* finds in its name: "int" with the class id, "text" when it is not a
\* number, "none" when the name has no '-' marker.
AudioFile(len, c) == [decodable |-> TRUE, len |-> len, label |-> "int", class |-> c]
Undecodable == [decodable |-> FALSE, len |-> 0, label |-> "int", class |-> 0]
Unmarked(len) == [decodable |-> TRUE, len |-> len, label |-> "none", class |-> 0]
NonNumeric(len) == [decodable |-> TRUE, len |-> len, label |-> "text", class |-> 0]

BadFile(file) == ~file.decodable \/ file.label # "int"

RECURSIVE ClipWindowsPadded(_, _, _)
\* A variant without the length test: every yielded window is kept.
ClipWindowsPadded(from, len, window_size) ==
    IF from < len
    THEN <<from>> \o ClipWindowsPadded(from + WindowStep(window_size), len, window_size)
    ELSE <<>>

RECURSIVE ClipWindows(_, _, _)
\* for (start,end) in windows(sound_clip,window_size):
\*     if(len(sound_clip[start:end]) == window_size): ...
\* the starts of the windows of one clip that pass the length test, in order.
ClipWindows(from, len, window_size) ==
    IF from < len
    THEN (IF SliceLen(len, from, from + window_size) = window_size
          THEN <<from>> ELSE <<>>)
         \o ClipWindows(from + WindowStep(window_size), len, window_size)
    ELSE <<>>

\* What one decodable, marked clip appends to log_specgrams: one entry per
\* full-length window, identified by the clip's position and the window start.
ClipSpecgrams(i, file, fr) ==
    LET ws == ClipWindows(0, file.len, WindowSize(fr))
    IN  [j \in 1..Len(ws) |-> [clip |-> i, start |-> ws[j]]]

\* A variant that appends the label once per clip.
ClipLabelsOnce(i, file, fr) == <<[label |-> file.label, class |-> file.class]>>

\* What it appends to labels: the label text once per appended spectrogram.
ClipLabels(i, file, fr) ==
    [j \in 1..Len(ClipSpecgrams(i, file, fr)) |->
        [label |-> file.label, class |-> file.class]]

RECURSIVE ExtractFrom(_, _, _, _, _)
\* The loop of extract_features over the files of one fold directory, from
\* file i on, and its return: the first file that librosa.load cannot decode
\* or whose name has no '-' ends the call in that exception, and
\* np.array(labels, dtype = np.int) raises ValueError on a label that is not
\* a number.
ExtractFrom(files, i, specs, labels, fr) ==
    IF i > Len(files)
    THEN IF \E j \in 1..Len(labels) : labels[j].label # "int"
         THEN [raised |-> "ValueError", features |-> <<>>, labels |-> <<>>]
         ELSE [raised |-> "",
               features |-> specs,
               labels |-> [j \in 1..Len(labels) |-> labels[j].class]]
    ELSE IF ~files[i].decodable
    THEN [raised |-> "LoadError", features |-> <<>>, labels |-> <<>>]
    ELSE IF files[i].label = "none"
    THEN [raised |-> "IndexError", features |-> <<>>, labels |-> <<>>]
    ELSE ExtractFrom(files, i + 1,
                     specs \o ClipSpecgrams(i, files[i], fr),
                     labels \o ClipLabels(i, files[i], fr), fr)

extract_features(files, fr) == ExtractFrom(files, 1, <<>>, <<>>, fr)

\* ------------------------------------------------------------- load_folds

Folds == 1..NumFolds

\* A .npy file: absent, partly written, or saved with its array by a run.
Absent == [state |-> "absent", data |-> <<>>, run |-> 0]
Partial(r) == [state |-> "partial", data |-> <<>>, run |-> r]
Saved(array, r) == [state |-> "saved", data |-> array, run |-> r]

\* np.load: IOError on a missing file, ValueError on a truncated one.
NpLoadError(file) ==
    IF file.state = "absent" THEN "IOError"
    ELSE IF file.state = "partial" THEN "ValueError"
    ELSE ""

LoadFailed(error) == [raised |-> error, features |-> <<>>, labels |-> <<>>]

RECURSIVE LoadFrom(_, _, _, _, _)
\* The loop of load_folds from position i of folds on, with the arrays
\* accumulated so far: np.concatenate of the label matrices raises
\* ValueError unless their widths agree.
LoadFrom(files, folds, i, feats, labs) ==
    IF i > Len(folds)
    THEN IF Len(folds) = 0
         THEN LoadFailed("UnboundLocalError")
         ELSE [raised |-> "", features |-> feats, labels |-> labs]
    ELSE LET file_x == files[folds[i]].x
             file_y == files[folds[i]].y
         IN  IF NpLoadError(file_x) # "" THEN LoadFailed(NpLoadError(file_x))
             ELSE IF NpLoadError(file_y) # "" THEN LoadFailed(NpLoadError(file_y))
             ELSE IF i = 1
             THEN LoadFrom(files, folds, i + 1, file_x.data, file_y.data)
             ELSE IF labs.width # file_y.data.width
             THEN LoadFailed("ValueError")
             ELSE LoadFrom(files, folds, i + 1,
                           feats \o file_x.data,
                           [width |-> labs.width,
                            rows |-> labs.rows \o file_y.data.rows])

\* A variant that tests os.path.exists first and leaves out a fold with a
\* missing file.
load_folds_skip_missing(files, folds) ==
    LoadFrom(files,
             SelectSeq(folds, LAMBDA fold : /\ files[fold].x.state # "absent"
                                            /\ files[fold].y.state # "absent"),
             1, <<>>, <<>>)

load_folds(files, folds) == LoadFrom(files, folds, 1, <<>>, <<>>)

\* ------------------------------------------------------------- save_folds

\* Clip lengths of the corpus: no, one and two full windows.
TooShort == WindowSize(DefaultFrames) \div 2
OneWindow == WindowSize(DefaultFrames)
TwoWindows == WindowSize(DefaultFrames) + WindowSize(DefaultFrames) \div 2

FileKinds ==
    {AudioFile(TwoWindows, 0), AudioFile(OneWindow, 1), AudioFile(TooShort, 0),
     Undecodable, Unmarked(OneWindow), NonNumeric(OneWindow)}

\* The corpora whose first CorpusFolds fold directories hold one of the given
\* file lists each.
Corpora(contents) ==
    {[fold \in Folds |-> IF fold <= CorpusFolds THEN c[fold] ELSE <<>>] :
        c \in [1..CorpusFolds -> contents]}

FoldLists == SeqsUpTo(Folds, MaxLoad) \ {<<>>}

InitFolds ==
    /\ corpus \in Corpora(SeqsUpTo(FileKinds, MaxFiles))
    /\ disk = [fold \in Folds |-> [x |-> Absent, y |-> Absent]]
    /\ run = 1
    /\ k = 1
    /\ extracted = <<>>
    /\ encoded = <<>>
    /\ save_pc = "extract"
    /\ raised = ""
    /\ load_req = <<>>
    /\ load_result = <<>>
    /\ load_pc = "idle"
    /\ ClipIdle
    /\ EncIdle
    /\ TrainIdle
    /\ AllIdle

\* features, labels = extract_features(parent_dir, [fold_name])
ExtractFold ==
    /\ save_pc = "extract"
    /\ k <= NumFolds
    /\ extract_features(corpus[k], DefaultFrames).raised = ""
    /\ extracted' = extract_features(corpus[k], DefaultFrames)
    /\ save_pc' = "encode"
    /\ UNCHANGED <<corpus, disk, run, k, encoded, raised, load_req, load_result, load_pc>>
    /\ UNCHANGED <<clipVars, encVars, trainVars, allVars>>

\* extract_features raises: the exception ends save_folds.
ExtractRaise ==
    /\ save_pc = "extract"
    /\ k <= NumFolds
    /\ extract_features(corpus[k], DefaultFrames).raised # ""
    /\ extracted' = extract_features(corpus[k], DefaultFrames)
    /\ raised' = extract_features(corpus[k], DefaultFrames).raised
    /\ save_pc' = "raised"
    /\ UNCHANGED <<corpus, disk, run, k, encoded, load_req, load_result, load_pc>>
    /\ UNCHANGED <<clipVars, encVars, trainVars, allVars>>

\* labels = one_hot_encode(labels)
EncodeLabels ==
    /\ save_pc = "encode"
    /\ one_hot_encode(extracted.labels).raised = ""
    /\ encoded' = one_hot_encode(extracted.labels)
    /\ save_pc' = "save_x"
    /\ UNCHANGED <<corpus, disk, run, k, extracted, raised, load_req, load_result, load_pc>>
    /\ UNCHANGED <<clipVars, encVars, trainVars, allVars>>

\* one_hot_encode raises: the exception ends save_folds.
EncodeLabelsRaise ==
    /\ save_pc = "encode"
    /\ one_hot_encode(extracted.labels).raised # ""
    /\ raised' = one_hot_encode(extracted.labels).raised
    /\ save_pc' = "raised"
    /\ UNCHANGED <<corpus, disk, run, k, extracted, encoded, load_req, load_result, load_pc>>
    /\ UNCHANGED <<clipVars, encVars, trainVars, allVars>>

\* np.save(feature_file, features) opens the file and starts writing.
BeginSaveX ==
    /\ save_pc = "save_x"
    /\ disk' = [disk EXCEPT ![k].x = Partial(run)]
    /\ save_pc' = "saving_x"
    /\ UNCHANGED <<corpus, run, k, extracted, encoded, raised, load_req, load_result, load_pc>>
    /\ UNCHANGED <<clipVars, encVars, trainVars, allVars>>

\* np.save(feature_file, features) completes.
EndSaveX ==
    /\ save_pc = "saving_x"
    /\ disk' = [disk EXCEPT ![k].x = Saved(extracted.features, run)]
    /\ save_pc' = "save_y"
    /\ UNCHANGED <<corpus, run, k, extracted, encoded, raised, load_req, load_result, load_pc>>
    /\ UNCHANGED <<clipVars, encVars, trainVars, allVars>>

\* np.save(labels_file, labels) opens the file and starts writing.
BeginSaveY ==
    /\ save_pc = "save_y"
    /\ disk' = [disk EXCEPT ![k].y = Partial(run)]
    /\ save_pc' = "saving_y"
    /\ UNCHANGED <<corpus, run, k, extracted, encoded, raised, load_req, load_result, load_pc>>
    /\ UNCHANGED <<clipVars, encVars, trainVars, allVars>>

\* np.save(labels_file, labels) completes; the loop goes on to the next fold.
EndSaveY ==
    /\ save_pc = "saving_y"
    /\ disk' = [disk EXCEPT ![k].y =
                   Saved([width |-> encoded.width, rows |-> encoded.rows], run)]
    /\ k' = k + 1
    /\ save_pc' = "extract"
    /\ UNCHANGED <<corpus, run, extracted, encoded, raised, load_req, load_result, load_pc>>
    /\ UNCHANGED <<clipVars, encVars, trainVars, allVars>>

\* range(1,11) is exhausted: save_folds returns.
SaveFoldsEnd ==
    /\ save_pc = "extract"
    /\ k > NumFolds
    /\ save_pc' = "done"
    /\ UNCHANGED <<corpus, disk, run, k, extracted, encoded, raised, load_req, load_result, load_pc>>
    /\ UNCHANGED <<clipVars, encVars, trainVars, allVars>>

\* save_folds is not running: it returned, or an exception or an interrupt ended it.
SaveStopped == save_pc \in {"done", "raised", "interrupted"}

\* A later cell calls load_folds(folds) and it returns.  load_folds only
\* reads the files, so one call per behaviour shows every result it can have.
LoadReturn ==
    /\ SaveStopped
    /\ load_pc = "idle"
    /\ \E folds \in FoldLists :
           /\ load_folds(disk, folds).raised = ""
           /\ load_req' = folds
           /\ load_result' = load_folds(disk, folds)
    /\ load_pc' = "returned"
    /\ UNCHANGED <<corpus, disk, run, k, extracted, encoded, save_pc, raised>>
    /\ UNCHANGED <<clipVars, encVars, trainVars, allVars>>

\* A later cell calls load_folds(folds) and it raises.
LoadRaise ==
    /\ SaveStopped
    /\ load_pc = "idle"
    /\ \E folds \in FoldLists :
           /\ load_folds(disk, folds).raised # ""
           /\ load_req' = folds
           /\ load_result' = load_folds(disk, folds)
    /\ load_pc' = "raised"
    /\ UNCHANGED <<corpus, disk, run, k, extracted, encoded, save_pc, raised>>
    /\ UNCHANGED <<clipVars, encVars, trainVars, allVars>>

NextFolds ==
    \/ ExtractFold
    \/ ExtractRaise
    \/ EncodeLabels
    \/ EncodeLabelsRaise
    \/ BeginSaveX
    \/ EndSaveX
    \/ BeginSaveY
    \/ EndSaveY
    \/ SaveFoldsEnd
    \/ LoadReturn
    \/ LoadRaise

SpecFolds == InitFolds /\ [][NextFolds]_vars

\* The fold's label file holds a saved one-hot matrix.
LabelsSaved(fold) == disk[fold].y.state = "saved"
FoldSaved(fold) == disk[fold].x.state = "saved" /\ disk[fold].y.state = "saved"

\* Class ids of the examples behind the saved rows of a fold, in row order.
SavedClasses(fold) ==
    [i \in 1..Len(disk[fold].x.data) |-> corpus[fold][disk[fold].x.data[i].clip].class]

\* C5: the one-hot label arrays that save_folds has persisted all have the
\* same width and the same column for the same class, whatever classes each
\* fold holds, and load_folds never fails to concatenate persisted folds.
C5_AsStated ==
    /\ \A j \in Folds, m \in Folds :
           (LabelsSaved(j) /\ LabelsSaved(m)) =>
               disk[j].y.data.width = disk[m].y.data.width
    /\ (load_pc # "idle" /\ \A i \in 1..Len(load_req) : FoldSaved(load_req[i])) =>
           load_result.raised = ""

RECURSIVE ConcatFeatures(_, _)
ConcatFeatures(folds, i) ==
    IF i > Len(folds) THEN <<>>
    ELSE disk[folds[i]].x.data \o ConcatFeatures(folds, i + 1)

RECURSIVE ConcatLabelRows(_, _)
ConcatLabelRows(folds, i) ==
    IF i > Len(folds) THEN <<>>
    ELSE disk[folds[i]].y.data.rows \o ConcatLabelRows(folds, i + 1)

\* C6: load_folds of a non-empty list of persisted folds returns the folds'
\* feature arrays and label arrays concatenated in the order of the list.
C6_AsStated ==
    (load_pc # "idle" /\ \A i \in 1..Len(load_req) : FoldSaved(load_req[i])) =>
        /\ load_result.raised = ""
        /\ load_result.features = ConcatFeatures(load_req, 1)
        /\ load_result.labels.rows = ConcatLabelRows(load_req, 1)
        /\ Len(load_result.features) = Len(load_result.labels.rows)

RECURSIVE GoodExamples(_, _)
\* The examples of the files of a fold that decode and carry a class id.
GoodExamples(files, i) ==
    IF i > Len(files) THEN <<>>
    ELSE (IF BadFile(files[i]) THEN <<>> ELSE ClipSpecgrams(i, files[i], DefaultFrames))
         \o GoodExamples(files, i + 1)

\* The call of extract_features for fold k has ended.
Extracted(fold) == fold = k /\ save_pc \in {"encode", "raised"} /\ extracted # <<>>

\* C10: extract_features skips a file that cannot be decoded or whose name
\* yields no label and returns the examples of all the other files of the fold.
C10_AsStated ==
    \A fold \in Folds :
        Extracted(fold) =>
            /\ extracted.raised = ""
            /\ extracted.features = GoodExamples(corpus[fold], 1)

\* ------------------------------------------ save_folds, interrupted and rerun

\* Corpora of decodable, labelled one-window clips of class 0: between two
\* runs the fold directories may gain or lose files.
PersistContents == SeqsUpTo({AudioFile(OneWindow, 0)}, MaxFiles) \ {<<>>}

InitPersist ==
    /\ corpus \in Corpora(PersistContents)
    /\ disk = [fold \in Folds |-> [x |-> Absent, y |-> Absent]]
    /\ run = 1
    /\ k = 1
    /\ extracted = <<>>
    /\ encoded = <<>>
    /\ save_pc = "extract"
    /\ raised = ""
    /\ load_req = <<>>
    /\ load_result = <<>>
    /\ load_pc = "idle"
    /\ ClipIdle
    /\ EncIdle
    /\ TrainIdle
    /\ AllIdle

\* The kernel is interrupted while save_folds runs: nothing is undone, a file
\* that np.save was writing stays as far as it was written.
Interrupt ==
    /\ save_pc \in {"extract", "encode", "save_x", "saving_x", "save_y", "saving_y"}
    /\ k <= NumFolds
    /\ raised' = "KeyboardInterrupt"
    /\ save_pc' = "interrupted"
    /\ UNCHANGED <<corpus, disk, run, k, extracted, encoded, load_req, load_result, load_pc>>
    /\ UNCHANGED <<clipVars, encVars, trainVars, allVars>>

\* save_folds is run again over the directory as it is then; np.save
\* overwrites the files of the earlier run fold by fold.
Rerun ==
    /\ SaveStopped
    /\ load_pc = "idle"
    /\ run < MaxRuns
    /\ corpus' \in Corpora(PersistContents)
    /\ run' = run + 1
    /\ k' = 1
    /\ extracted' = <<>>
    /\ encoded' = <<>>
    /\ raised' = ""
    /\ save_pc' = "extract"
    /\ UNCHANGED <<disk, load_req, load_result, load_pc>>
    /\ UNCHANGED <<clipVars, encVars, trainVars, allVars>>

NextPersist ==
    \/ ExtractFold
    \/ EncodeLabels
    \/ BeginSaveX
    \/ EndSaveX
    \/ BeginSaveY
    \/ EndSaveY
    \/ SaveFoldsEnd
    \/ Interrupt
    \/ Rerun
    \/ LoadReturn
    \/ LoadRaise

SpecPersist == InitPersist /\ [][NextPersist]_vars

\* C9: a fold that load_folds accepts has a complete feature file and a
\* complete label file written by the same run of save_folds, however the
\* runs were interrupted.
C9_AsStated ==
    load_pc = "returned" =>
        \A i \in 1..Len(load_req) :
            /\ disk[load_req[i]].x.state = "saved"
            /\ disk[load_req[i]].y.state = "saved"
            /\ disk[load_req[i]].x.run = disk[load_req[i]].y.run

\* ------------------------------------------------ load_folds, missing files

\* One run of save_folds that may be interrupted anywhere, then load_folds.
NextOneRun ==
    \/ ExtractFold
    \/ EncodeLabels
    \/ BeginSaveX
    \/ EndSaveX
    \/ BeginSaveY
    \/ EndSaveY
    \/ SaveFoldsEnd
    \/ Interrupt
    \/ LoadReturn
    \/ LoadRaise

SpecOneRun == InitPersist /\ [][NextOneRun]_vars

FileMissing(fold) ==
    disk[fold].x.state = "absent" \/ disk[fold].y.state = "absent"

\* Position i of the request is the first fold that np.load cannot open: the
\* folds before it are saved with label matrices of one width, and the
\* feature file of fold i is missing, or it is saved and the label file is.
FirstFailureIsMissing(folds, i) ==
    /\ \A j \in 1..(i - 1) :
           /\ FoldSaved(folds[j])
           /\ disk[folds[j]].y.data.width = disk[folds[1]].y.data.width
    /\ \/ disk[folds[i]].x.state = "absent"
       \/ disk[folds[i]].x.state = "saved" /\ disk[folds[i]].y.state = "absent"

\* C11: load_folds raises when the feature file or the label file of a
\* requested fold is missing, with the IOError of np.load when that file is
\* the first it cannot read; it returns nothing then, and a result it does
\* return covers every requested fold.
C11_MissingFoldFails ==
    load_pc # "idle" =>
        /\ (\E i \in 1..Len(load_req) : FileMissing(load_req[i])) =>
               /\ load_pc = "raised"
               /\ load_result.raised # ""
               /\ load_result.features = <<>>
        /\ \A i \in 1..Len(load_req) :
               FirstFailureIsMissing(load_req, i) => load_result.raised = "IOError"
        /\ load_pc = "returned" =>
               /\ \A i \in 1..Len(load_req) : ~FileMissing(load_req[i])
               /\ load_result.features = ConcatFeatures(load_req, 1)

\* save_folds was interrupted between the two files of fold 2; load_folds of
\* folds 1 and 2 raised IOError on the missing label file.
C11_Witness ==
    /\ load_pc = "raised"
    /\ load_req = <<1, 2>>
    /\ FoldSaved(1)
    /\ disk[2].x.state = "saved"
    /\ disk[2].y.state = "absent"
    /\ load_result.raised = "IOError"

\* ------------------------------------------- save_folds, well-formed clips

\* Decodable clips with a class id in their name: two windows, one window
\* of another class, and shorter than one window.
ClipKinds ==
    {AudioFile(TwoWindows, 0), AudioFile(OneWindow, 1), AudioFile(TooShort, 0)}

\* The corpora whose folds 1 and 2 hold one of the given clip lists each.
TwoFoldCorpora(contents) ==
    {[fold \in Folds |-> IF fold = 1 THEN a ELSE IF fold = 2 THEN b ELSE <<>>] :
        a \in contents, b \in contents}

InitCorpus ==
    /\ corpus \in TwoFoldCorpora(SeqsUpTo(ClipKinds, MaxClips))
    /\ disk = [fold \in Folds |-> [x |-> Absent, y |-> Absent]]
    /\ run = 1
    /\ k = 1
    /\ extracted = <<>>
    /\ encoded = <<>>
    /\ save_pc = "extract"
    /\ raised = ""
    /\ load_req = <<>>
    /\ load_result = <<>>
    /\ load_pc = "idle"
    /\ ClipIdle
    /\ EncIdle
    /\ TrainIdle
    /\ AllIdle

\* val_x, val_y = load_folds([v]): a later cell loads one fold and it returns.
LoadOneReturn ==
    /\ SaveStopped
    /\ load_pc = "idle"
    /\ \E fold \in Folds :
           /\ load_folds(disk, <<fold>>).raised = ""
           /\ load_req' = <<fold>>
           /\ load_result' = load_folds(disk, <<fold>>)
    /\ load_pc' = "returned"
    /\ UNCHANGED <<corpus, disk, run, k, extracted, encoded, save_pc, raised>>
    /\ UNCHANGED <<clipVars, encVars, trainVars, allVars>>

\* A later cell loads one fold and load_folds raises.
LoadOneRaise ==
    /\ SaveStopped
    /\ load_pc = "idle"
    /\ \E fold \in Folds :
           /\ load_folds(disk, <<fold>>).raised # ""
           /\ load_req' = <<fold>>
           /\ load_result' = load_folds(disk, <<fold>>)
    /\ load_pc' = "raised"
    /\ UNCHANGED <<corpus, disk, run, k, extracted, encoded, save_pc, raised>>
    /\ UNCHANGED <<clipVars, encVars, trainVars, allVars>>

NextCorpus ==
    \/ ExtractFold
    \/ EncodeLabels
    \/ EncodeLabelsRaise
    \/ BeginSaveX
    \/ EndSaveX
    \/ BeginSaveY
    \/ EndSaveY
    \/ SaveFoldsEnd
    \/ LoadOneReturn
    \/ LoadOneRaise

SpecCorpus == InitCorpus /\ [][NextCorpus]_vars

\* extract_features has returned for fold k and save_folds still holds its result.
ExtractionEnded == extracted # <<>> /\ save_pc \notin {"extract", "done"}

\* Starts of the full-length windows of a clip of len samples.
FullWindowStarts(len) ==
    {s \in {j * WindowStep(WindowSize(DefaultFrames)) :
                j \in 0..(len \div WindowStep(WindowSize(DefaultFrames)))} :
        s + WindowSize(DefaultFrames) <= len}

\* C12: extract_features returns, for every clip of the fold, exactly one
\* feature per full-length window of the clip, in clip order, and as many
\* labels as features, the label at each position being the class of the
\* clip that the feature at that position was cut from.
C12_FeaturesLabelsAligned ==
    ExtractionEnded =>
        /\ extracted.raised = ""
        /\ Len(extracted.features) = Len(extracted.labels)
        /\ \A i \in 1..Len(extracted.features) :
               /\ extracted.features[i].clip \in 1..Len(corpus[k])
               /\ extracted.features[i].start \in
                      FullWindowStarts(corpus[k][extracted.features[i].clip].len)
               /\ extracted.labels[i] = corpus[k][extracted.features[i].clip].class
               /\ \A j \in 1..(i - 1) :
                      \/ extracted.features[j].clip < extracted.features[i].clip
                      \/ /\ extracted.features[j].clip = extracted.features[i].clip
                         /\ extracted.features[j].start < extracted.features[i].start
        /\ \A c \in 1..Len(corpus[k]) :
               \A s \in FullWindowStarts(corpus[k][c].len) :
                   \E i \in 1..Len(extracted.features) :
                       extracted.features[i] = [clip |-> c, start |-> s]

\* Fold 1 holds a two-window clip of class 0, a one-window clip of class 1
\* and a too-short clip: three features with labels 0, 0, 1.
C12_Witness ==
    /\ ExtractionEnded
    /\ k = 1
    /\ corpus[1] = <<AudioFile(TwoWindows, 0), AudioFile(OneWindow, 1),
                     AudioFile(TooShort, 0)>>
    /\ Len(extracted.features) = 3
    /\ extracted.labels = <<0, 0, 1>>

\* Number of full-length windows of a clip of len samples.
FullWindowCount(len) ==
    IF len < WindowSize(DefaultFrames) THEN 0
    ELSE ((len - WindowSize(DefaultFrames)) \div (WindowSize(DefaultFrames) \div 2)) + 1

RECURSIVE SumWindowCounts(_, _)
SumWindowCounts(files, i) ==
    IF i > Len(files) THEN 0
    ELSE FullWindowCount(files[i].len) + SumWindowCounts(files, i + 1)

\* C13: a clip shorter than one window adds no example and raises nothing;
\* the example count of an extracted fold is the sum of the full-window
\* counts of its clips; a fold without any full window is encoded without
\* error, saved with zero rows by save_folds when the loop comes to it, and
\* load_folds of that fold returns zero rows.
C13_ShortClipsTolerated ==
    /\ ExtractionEnded =>
           /\ extracted.raised = ""
           /\ Len(extracted.features) = SumWindowCounts(corpus[k], 1)
           /\ SumWindowCounts(corpus[k], 1) = 0 =>
                  /\ one_hot_encode(extracted.labels).raised = ""
                  /\ save_pc # "raised"
    /\ \A fold \in Folds :
           fold < k =>
               /\ FoldSaved(fold)
               /\ Len(disk[fold].x.data) = SumWindowCounts(corpus[fold], 1)
               /\ Len(disk[fold].y.data.rows) = SumWindowCounts(corpus[fold], 1)
    /\ (load_pc # "idle" /\ FoldSaved(load_req[1])) =>
           /\ load_pc = "returned"
           /\ Len(load_result.features) = SumWindowCounts(corpus[load_req[1]], 1)
           /\ Len(load_result.labels.rows) = SumWindowCounts(corpus[load_req[1]], 1)

\* Fold 1 holds three clips of two windows each, fold 2 one too-short clip:
\* save_folds has saved 6 examples for fold 1, and load_folds of fold 2 has
\* returned a dataset of zero rows.
C13_Witness ==
    /\ corpus[1] = <<AudioFile(TwoWindows, 0), AudioFile(TwoWindows, 0),
                     AudioFile(TwoWindows, 0)>>
    /\ corpus[2] = <<AudioFile(TooShort, 0)>>
    /\ save_pc = "done"
    /\ Len(disk[1].x.data) = 6
    /\ load_pc = "returned"
    /\ load_req = <<2>>
    /\ load_result.features = <<>>
    /\ load_result.labels.rows = <<>>

\* --------------------------------------------------------- load_all_folds

\* A global name of the notebook: not bound, or bound to a value.
Unbound == [defined |-> FALSE, value |-> <<>>]
Bound(value) == [defined |-> TRUE, value |-> value]

\* features = extract_feature_array(sample_filename): the sample cell binds
\* the global name features to the examples of one clip.
SampleFeatures == <<[clip |-> 0, start |-> 0]>>

AllFailed(error) ==
    [raised |-> error, train_x |-> <<>>, train_y |-> <<>>,
     valid_x |-> <<>>, valid_y |-> <<>>, test_x |-> <<>>, test_y |-> <<>>]

RECURSIVE AllFoldsFrom(_, _, _, _, _, _)
\* The body of load_all_folds from fold on, with its locals subsequent_fold,
\* train_x and train_y, under the global names g.  In the subsequent_fold
\* branch the names features and labels are not locals of the function, so
\* Python looks them up as globals and raises NameError for one that is not
\* bound.  After the loop fold9 and fold10 are loaded into locals; the value
\* is the locals at the end of the body (the function has no return).
AllFoldsFrom(files, g, fold, subsequent_fold, train_x, train_y) ==
    IF fold > LastTrainFold
    THEN IF NpLoadError(files[ValidationFold].x) # ""
         THEN AllFailed(NpLoadError(files[ValidationFold].x))
         ELSE IF NpLoadError(files[ValidationFold].y) # ""
         THEN AllFailed(NpLoadError(files[ValidationFold].y))
         ELSE IF NpLoadError(files[TestingFold].x) # ""
         THEN AllFailed(NpLoadError(files[TestingFold].x))
         ELSE IF NpLoadError(files[TestingFold].y) # ""
         THEN AllFailed(NpLoadError(files[TestingFold].y))
         ELSE [raised |-> "", train_x |-> train_x, train_y |-> train_y,
               valid_x |-> files[ValidationFold].x.data,
               valid_y |-> files[ValidationFold].y.data,
               test_x |-> files[TestingFold].x.data,
               test_y |-> files[TestingFold].y.data]
    ELSE LET file_x == files[fold].x
             file_y == files[fold].y
         IN  IF NpLoadError(file_x) # "" THEN AllFailed(NpLoadError(file_x))
             ELSE IF NpLoadError(file_y) # "" THEN AllFailed(NpLoadError(file_y))
             ELSE IF ~subsequent_fold
             THEN AllFoldsFrom(files, g, fold + 1, TRUE, file_x.data, file_y.data)
             ELSE IF ~g.features.defined THEN AllFailed("NameError")
             ELSE IF ~g.labels.defined THEN AllFailed("NameError")
             ELSE IF g.labels.value.width # file_y.data.width
             THEN AllFailed("ValueError")
             ELSE AllFoldsFrom(files, g, fold + 1, TRUE,
                               g.features.value \o file_x.data,
                               [width |-> g.labels.value.width,
                                rows |-> g.labels.value.rows \o file_y.data.rows])

load_all_folds(files, g) == AllFoldsFrom(files, g, 1, FALSE, <<>>, <<>>)

\* The names that model.fit(train_x, train_y, validation_data=(valid_x,
\* valid_y), ...) reads in the cell.
FitNames == {"model", "train_x", "train_y", "valid_x", "valid_y"}

\* The notebook run from the top with all_folds = True: the sample cell may
\* or may not have been run; nothing has bound labels, model or the data sets.
InitAllFolds ==
    /\ corpus \in Corpora(PersistContents)
    /\ disk = [fold \in Folds |-> [x |-> Absent, y |-> Absent]]
    /\ run = 1
    /\ k = 1
    /\ extracted = <<>>
    /\ encoded = <<>>
    /\ save_pc = "extract"
    /\ raised = ""
    /\ load_req = <<>>
    /\ load_result = <<>>
    /\ load_pc = "idle"
    /\ all_folds = TRUE
    /\ globals \in {[features |-> sample, labels |-> Unbound, model |-> Unbound,
                     train_x |-> Unbound, train_y |-> Unbound,
                     valid_x |-> Unbound, valid_y |-> Unbound,
                     test_x |-> Unbound, test_y |-> Unbound] :
                        sample \in {Unbound, Bound(SampleFeatures)}}
    /\ cell_result = <<>>
    /\ cell_pc = "if"
    /\ ClipIdle
    /\ EncIdle
    /\ TrainIdle

\* if all_folds: load_all_folds(); model.fit(train_x, train_y, ...).
\* An exception of load_all_folds ends the cell.  When it returns, its data
\* sets were locals and are gone: the call is a statement, the function
\* declares no global and returns nothing, so model.fit reads the global
\* names as they were before the call.
AllFoldsCell ==
    /\ cell_pc = "if"
    /\ all_folds
    /\ save_pc = "done"
    /\ cell_result' =
           IF load_all_folds(disk, globals).raised # ""
           THEN [raised |-> load_all_folds(disk, globals).raised, fit |-> <<>>]
           ELSE IF \E name \in FitNames : ~globals[name].defined
           THEN [raised |-> "NameError", fit |-> <<>>]
           ELSE [raised |-> "",
                 fit |-> [train_x |-> globals.train_x.value,
                          train_y |-> globals.train_y.value,
                          valid_x |-> globals.valid_x.value,
                          valid_y |-> globals.valid_y.value]]
    /\ cell_pc' = "done"
    /\ UNCHANGED <<all_folds, globals>>
    /\ UNCHANGED <<clipVars, encVars, trainVars, foldVars>>

NextAllFolds ==
    \/ ExtractFold
    \/ EncodeLabels
    \/ BeginSaveX
    \/ EndSaveX
    \/ BeginSaveY
    \/ EndSaveY
    \/ SaveFoldsEnd
    \/ AllFoldsCell

SpecAllFolds == InitAllFolds /\ [][NextAllFolds]_vars

TrainFoldList == [i \in 1..LastTrainFold |-> i]

\* C14: with all_folds set, the cell hands model.fit a training set that is
\* the examples of folds 1 to 8 concatenated in order and fold 9 as the
\* validation set, as built by load_all_folds.
C14_AsStated ==
    cell_pc = "done" =>
        /\ cell_result.raised = ""
        /\ cell_result.fit.train_x = ConcatFeatures(TrainFoldList, 1)
        /\ cell_result.fit.train_y.rows = ConcatLabelRows(TrainFoldList, 1)
        /\ cell_result.fit.valid_x = disk[ValidationFold].x.data
        /\ cell_result.fit.valid_y = disk[ValidationFold].y.data

\* ------------------------------------------------- windows(), iterated

\* for (start,end) in windows(sound_clip,window_size), for every frames a
\* caller can configure: window_size = 512 * (frames - 1) is 0 for frames = 1.
InitWindows ==
    /\ bands = 0
    /\ frames \in 1..MaxFrames
    /\ clip_len \in 0..MaxLen
    /\ start = 0
    /\ window = <<>>
    /\ log_specgrams = <<>>
    /\ features = <<>>
    /\ pc = "windows"
    /\ EncIdle
    /\ TrainIdle
    /\ FoldIdle
    /\ AllIdle

\* The for loop has taken the yielded pair and asks the generator for the
\* next one.  What the body does with the pair has no effect on windows():
\* it shares no variable with the generator.
TakeWindow ==
    /\ pc = "body"
    /\ pc' = "resume"
    /\ UNCHANGED <<bands, frames, clip_len, start, window, log_specgrams, features>>
    /\ UNCHANGED <<encVars, trainVars, foldVars, allVars>>

NextWindows ==
    \/ WindowsYield
    \/ TakeWindow
    \/ WindowsAdvance
    \/ WindowsStop

\* The interpreter runs the one thread of the loop for as long as it has a
\* next statement.
SpecWindows == InitWindows /\ [][NextWindows]_vars /\ WF_vars(NextWindows)

\* C15: for every clip length and every window size 512 * (frames - 1) with
\* frames >= 1, every pair that windows() yields is (start, start + W) with
\* start < L, and the iteration comes to its end.
C15_AsStated ==
    /\ [](pc = "body" =>
              /\ window = <<start, start + WindowSize(frames)>>
              /\ start < clip_len)
    /\ <>(pc = "reshape")

====
